---------------------------- MODULE Spec2Model ----------------------------
(***************************************************************************)
(* A model of the core of three-mesh-ui: MeshUIComponent.js (attribute     *)
(* lookup, set, states, clear) together with the collaborators it calls    *)
(* (UpdateManager, FontLibrary, Defaults), whose files are not part of     *)
(* the sources at hand and are modelled after the written specification.   *)
(*                                                                         *)
(* JavaScript values are denoted by tokens (strings): "undefined", "0",    *)
(* "", "false" ... stand for the values undefined, 0, '', false ...; every *)
(* other token stands for a truthy value (a number, a string, an object).  *)
(***************************************************************************)
EXTENDS Integers, Sequences, FiniteSets, TLC

VARIABLES
    parent,        \* host graph: node -> its parent node, or NoNode
    tags,          \* node -> the role tags it carries (isUI, isText, ...)
    attr,          \* node -> attribute key -> local value (Undef when unset)
    states,        \* node -> state name -> bundle registered by setupState
    currentState,  \* node -> active state name (Undef initially)
    registered,    \* UpdateManager: the live set of components
    requested,     \* UpdateManager: node -> pending dirty flags
    loading,       \* FontLibrary: font requests not yet resolved
    last,          \* the call made by the last step
    events,        \* what the last call did, in order
    ops            \* number of calls made so far

vars == <<parent, tags, attr, states, currentState, registered, requested,
          loading, last, events, ops>>

---------------------------------------------------------------------------
(* Bounds *)

NumNodes == 3
MaxSetOps == 2
MaxOps == 3
MaxStateOps == 4

Nodes == 1 .. NumNodes
NoNode == 0

---------------------------------------------------------------------------
(* JavaScript values *)

Undef == "undefined"

Falsy == {"undefined", "null", "0", "", "false", "NaN"}

Truthy(v) == v \notin Falsy

\* The attribute vocabulary of a component.
Props ==
    {"fontSize", "fontFamily", "fontTexture", "fontColor", "fontOpacity",
     "breakOn", "textType", "borderRadius", "interLine", "offset",
     "backgroundColor", "backgroundOpacity", "backgroundTexture",
     "backgroundSize", "hiddenOverflow", "contentDirection", "justifyContent",
     "alignContent", "padding", "margin", "width", "height", "content", "src"}

\* Properties read through _getProperty (parents lookup).
Cascading ==
    {"fontSize", "fontTexture", "fontFamily", "breakOn", "textType",
     "fontColor", "fontOpacity", "borderRadius"}

\* Properties read by the getters with no parents lookup.
NonCascading ==
    {"backgroundOpacity", "backgroundColor", "backgroundTexture",
     "alignContent", "contentDirection", "justifyContent", "interLine",
     "offset", "backgroundSize", "hiddenOverflow"}

\* utils/Defaults.js: every property has a defined default.
DEFAULTS ==
    [p \in Props |-> IF p = "hiddenOverflow" THEN "false" ELSE "default:" \o p]

---------------------------------------------------------------------------
(* Role tags and the host graph *)

isUI(n) == "isUI" \in tags[n]
isText(n) == "isText" \in tags[n]
isInlineBlock(n) == "isInlineBlock" \in tags[n]
isBlock(n) == "isBlock" \in tags[n]
isInline(n) == "isInline" \in tags[n]

BlockTags == {"isUI", "isBlock"}
TextTags == {"isUI", "isText", "isInline"}
InlineBlockTags == {"isUI", "isInlineBlock", "isInline"}
Object3DTags == {}

\* Object3D.children
children(n) == {c \in Nodes : parent[c] = n}

getUIChildren(n) == {c \in children(n) : isUI(c)}

getUIParent(n) ==
    IF parent[n] # NoNode /\ isUI(parent[n]) THEN parent[n] ELSE NoNode

getNearestParent(n) == IF getUIParent(n) = NoNode THEN n ELSE parent[n]

RECURSIVE getHighestParent(_)
getHighestParent(n) ==
    IF getUIParent(n) = NoNode THEN n ELSE getHighestParent(parent[n])

\* The forests over Nodes: a node's parent has a smaller number.
Forests == {f \in [Nodes -> {NoNode} \cup Nodes] : \A n \in Nodes : f[n] < n}

\* The forests of one tree.
Trees == {f \in Forests : \A n \in Nodes : f[n] = NoNode => n = 1}

---------------------------------------------------------------------------
(* Getters *)

RECURSIVE _getProperty(_, _, _)
\* a is the attribute store the lookup reads (attr, or that of a world).
_getProperty(a, n, propName) ==
    IF a[n][propName] = Undef /\ getUIParent(n) # NoNode
    THEN _getProperty(a, parent[n], propName)
    ELSE IF Truthy(a[n][propName])
         THEN a[n][propName]
         ELSE DEFAULTS[propName]

getBackgroundOpacity(a, n) ==
    IF ~Truthy(a[n]["backgroundOpacity"]) /\ a[n]["backgroundOpacity"] # "0"
    THEN DEFAULTS["backgroundOpacity"]
    ELSE a[n]["backgroundOpacity"]

\* getBackgroundColor, getBackgroundTexture, getAlignContent,
\* getContentDirection, getJustifyContent: this[p] || DEFAULTS[p]
getOrDefault(a, n, p) == IF Truthy(a[n][p]) THEN a[n][p] ELSE DEFAULTS[p]

\* getInterLine, getOffset, getBackgroundSize, getHiddenOverflow:
\* (this[p] === undefined) ? DEFAULTS[p] : this[p]
getDefined(a, n, p) == IF a[n][p] = Undef THEN DEFAULTS[p] ELSE a[n][p]

getInherited(a, n, p) == _getProperty(a, n, p)

\* The getters with no parents lookup, by property.
getLocal(a, n, p) ==
    IF p = "backgroundOpacity" THEN getBackgroundOpacity(a, n)
    ELSE IF p \in {"interLine", "offset", "backgroundSize", "hiddenOverflow"}
         THEN getDefined(a, n, p)
         ELSE getOrDefault(a, n, p)

\* The value a component's getter returns for property p.
resolve(a, n, p) ==
    IF p \in NonCascading THEN getLocal(a, n, p) ELSE _getProperty(a, n, p)

---------------------------------------------------------------------------
(* Options, calls and events *)

\* An options argument: given is FALSE when the argument is undefined.
Opt(m) == [given |-> TRUE, map |-> m]
NoOptions == [given |-> FALSE, map |-> <<>>]

\* !options || JSON.stringify(options) === JSON.stringify({}):
\* JSON.stringify leaves out the keys whose value is undefined.
IsEmptyOptionsNegated(options) ==
    ~(\/ ~options.given
      \/ \A k \in DOMAIN options.map : options.map[k] = Undef)

IsEmptyOptions(options) ==
    \/ ~options.given
    \/ \A k \in DOMAIN options.map : options.map[k] = Undef

\* onSet callbacks: none, one that touches nothing of the component, or (named
\* by a state) one that calls setState with that state on the same component.
NoCallback == Undef
PlainCallback == "() => {}"

Call(op, n, name, options, cb, p, l, i) ==
    [op |-> op, node |-> n, name |-> name, options |-> options, cb |-> cb,
     parsing |-> p, layout |-> l, inner |-> i]

NoCall == Call("new", NoNode, "", NoOptions, NoCallback, FALSE, FALSE, FALSE)

Ev(ev, n, key, p, l, i) ==
    [ev |-> ev, node |-> n, key |-> key, parsing |-> p, layout |-> l, inner |-> i]

Emit(w, e) == [w EXCEPT !.events = Append(@, e)]

NoFlags == [parsing |-> FALSE, layout |-> FALSE, inner |-> FALSE]

\* The mutable state a call works on, with an empty record of events.
World ==
    [attr |-> attr, currentState |-> currentState, registered |-> registered,
     requested |-> requested, loading |-> loading, events |-> <<>>]

---------------------------------------------------------------------------
(* UpdateManager *)

register(w, n) == [w EXCEPT !.registered = @ \cup {n}]

requestUpdateOverwrite(w, n, p, l, i) ==
    IF n \notin w.registered THEN w
    ELSE [w EXCEPT !.requested[n] = [parsing |-> p, layout |-> l, inner |-> i]]

requestUpdate(w, n, p, l, i) ==
    IF n \notin w.registered THEN w
    ELSE [w EXCEPT !.requested[n] =
              [parsing |-> @.parsing \/ p,
               layout |-> @.layout \/ l,
               inner |-> @.inner \/ i]]

disposeOf(w, n) == [w EXCEPT !.registered = @ \ {n}]

---------------------------------------------------------------------------
(* FontLibrary *)

FontRequest(n, what, value) == [node |-> n, what |-> what, value |-> value]

\* The resource a font file or texture file resolves to.
loaded(value) == "loaded:" \o value

setFontFamily(w, n, fontFamily) ==
    [Emit(w, Ev("setFontFamily", n, fontFamily, FALSE, FALSE, FALSE))
        EXCEPT !.loading = @ \cup {FontRequest(n, "fontFamily", fontFamily)}]

setFontTexture(w, n, fontTexture) ==
    [Emit(w, Ev("setFontTexture", n, fontTexture, FALSE, FALSE, FALSE))
        EXCEPT !.loading = @ \cup {FontRequest(n, "fontTexture", fontTexture)}]

---------------------------------------------------------------------------
(* MeshUIComponent: getClippingPlanes *)

\* The normals of the four planes, in the order of newPlanes.
Normals == <<"0,1,0", "0,-1,0", "1,0,0", "-1,0,0">>

\* The four planes made from the height, width and padding of a parent and
\* brought to world space with the parent's matrixWorld: a plane is known by
\* the component it bounds and its normal.
newPlanes(par) ==
    [j \in 1 .. Len(Normals) |-> Ev("plane", par, Normals[j], FALSE, FALSE, FALSE)]

getClippingPlanesParentOnly(a, n) ==
    IF parent[n] # NoNode /\ isUI(parent[n])
           /\ isBlock(n) /\ Truthy(getDefined(a, parent[n], "hiddenOverflow"))
    THEN newPlanes(parent[n]) ELSE <<>>

RECURSIVE getClippingPlanes(_, _)
getClippingPlanes(a, n) ==
    IF parent[n] # NoNode /\ isUI(parent[n])
    THEN (IF isBlock(n) /\ Truthy(getDefined(a, parent[n], "hiddenOverflow"))
          THEN newPlanes(parent[n]) ELSE <<>>)
         \o (IF parent[parent[n]] # NoNode /\ isUI(parent[parent[n]])
             THEN getClippingPlanes(a, parent[n]) ELSE <<>>)
    ELSE <<>>

---------------------------------------------------------------------------
(* MeshUIComponent: update, add, set *)

update(w, n, updateParsing, updateLayout, updateInner) ==
    requestUpdate(
        Emit(w, Ev("update", n, "", updateParsing, updateLayout, updateInner)),
        n, updateParsing, updateLayout, updateInner)

RECURSIVE addUpdates(_, _, _)
\* The loop of add: update( null, true ) for each inline argument.
addUpdates(w, n, args) ==
    IF args = <<>> THEN w
    ELSE addUpdates(IF isInline(Head(args))
                    THEN update(w, n, FALSE, TRUE, FALSE) ELSE w,
                    n, Tail(args))

RECURSIVE hostAdd(_, _)
\* Object3D.add( ...arguments ): the host graph inserts each argument in turn.
hostAdd(w, args) ==
    IF args = <<>> THEN w
    ELSE hostAdd(Emit(w, Ev("add", Head(args), "", FALSE, FALSE, FALSE)), Tail(args))

addFirstOnly(w, n, args) == hostAdd(addUpdates(w, n, <<Head(args)>>), args)

add(w, n, args) == hostAdd(addUpdates(w, n, args), args)

SizeKeys == {"width", "height", "padding"}

LayoutKeysAndBackground ==
    {"fontSize", "interLine", "margin", "contentDirection", "justifyContent",
     "alignContent", "textType", "borderRadius", "backgroundSize", "src",
     "backgroundColor"}

LayoutKeys ==
    {"fontSize", "interLine", "margin", "contentDirection", "justifyContent",
     "alignContent", "textType", "borderRadius", "backgroundSize", "src"}

InnerKeys ==
    {"fontColor", "fontOpacity", "offset", "backgroundColor",
     "backgroundOpacity", "backgroundTexture"}

ClassifiedKeysAndFonts ==
    {"content"} \cup SizeKeys \cup LayoutKeys \cup InnerKeys
        \cup {"hiddenOverflow", "fontFamily", "fontTexture"}

ClassifiedKeysAndBreakOn ==
    {"content"} \cup SizeKeys \cup LayoutKeys \cup InnerKeys
        \cup {"hiddenOverflow", "breakOn"}

\* The cases of the switch: each writes this[ prop ] = options[ prop ].
ClassifiedKeys ==
    {"content"} \cup SizeKeys \cup LayoutKeys \cup InnerKeys \cup {"hiddenOverflow"}

\* if ( options.fontFamily ), if ( options.fontTexture )
HasTruthyNever(options, k) == FALSE

HasTruthy(options, k) == k \in DOMAIN options.map /\ Truthy(options.map[k])

set(w, n, options) ==
    LET w0 == register(Emit(w, Ev("set", n, "", FALSE, FALSE, FALSE)), n)
        keys == DOMAIN options.map
        parsingNeedsUpdate ==
            \/ "content" \in keys /\ isText(n)
            \/ keys \cap SizeKeys # {} /\ isInlineBlock(n)
        layoutClassified ==
            keys \cap ({"content"} \cup SizeKeys \cup LayoutKeys) # {}
        innerNeedsUpdate == keys \cap InnerKeys # {}
        w1 == [w0 EXCEPT !.attr[n] =
                  [p \in Props |->
                      IF p \in keys \cap ClassifiedKeys
                      THEN options.map[p] ELSE @[p]]]
        w2 == IF HasTruthy(options, "fontFamily")
              THEN setFontFamily(w1, n, options.map["fontFamily"]) ELSE w1
        w3 == IF HasTruthy(options, "fontTexture")
              THEN setFontTexture(w2, n, options.map["fontTexture"]) ELSE w2
        layoutNeedsUpdate ==
            /\ layoutClassified
            /\ ~HasTruthy(options, "fontFamily")
            /\ ~HasTruthy(options, "fontTexture")
        w4 == update(w3, n, parsingNeedsUpdate, layoutNeedsUpdate, innerNeedsUpdate)
    IN  IF IsEmptyOptions(options) THEN w0
        ELSE IF layoutNeedsUpdate
             THEN update(w4, getHighestParent(n), FALSE, TRUE, FALSE)
             ELSE w4

---------------------------------------------------------------------------
(* MeshUIComponent: states management *)

\* The names setupState registers in the behaviours explored.
StateNames == {"hover", "idle"}

\* this.states starts as {} : a lookup of a name that is no own property finds
\* what every object inherits (toString, constructor, valueOf ...).
ObjectPrototypeKeys == {"toString"}

Bundle(attributes, onSet) == [attributes |-> attributes, onSet |-> onSet]

\* An inherited member has neither attributes nor onSet.
InheritedMember == Bundle(NoOptions, NoCallback)

\* !!this.states[ state ]
hasSavedState(n, state) ==
    state \in DOMAIN states[n] \/ state \in ObjectPrototypeKeys

\* this.states[ state ], when it is not undefined
savedState(n, state) ==
    IF state \in DOMAIN states[n] THEN states[n][state] ELSE InheritedMember

setupStateAlone(table, state, attributes, onSet) ==
    state :> Bundle(attributes, onSet)

\* this.states[ options.state ] = { attributes, onSet }
setupState(table, state, attributes, onSet) ==
    (state :> Bundle(attributes, onSet)) @@ table

\* A callback that calls setState is followed as deep as the state names go.
MaxReentry == Cardinality(StateNames)

RECURSIVE setState(_, _, _, _)

setStateNoCurrentCheck(w, n, state, fuel) ==
    IF ~hasSavedState(n, state)
    THEN Emit(w, Ev("warn", n, state, FALSE, FALSE, FALSE))
    ELSE LET saved == savedState(n, state)
             w1 == Emit([w EXCEPT !.currentState[n] = state],
                        Ev("currentState", n, state, FALSE, FALSE, FALSE))
             w2 == IF saved.onSet = NoCallback THEN w1
                   ELSE LET called == Emit(w1, Ev("onSet", n, state, FALSE, FALSE, FALSE))
                        IN  IF saved.onSet = PlainCallback \/ fuel = 0
                            THEN called
                            ELSE setState(called, n, saved.onSet, fuel - 1)
         IN  IF saved.attributes.given
             THEN set(Emit(w2, Ev("attributes", n, state, FALSE, FALSE, FALSE)),
                      n, saved.attributes)
             ELSE w2

setStateOnSetFirst(w, n, state, fuel) ==
    IF ~hasSavedState(n, state)
    THEN Emit(w, Ev("warn", n, state, FALSE, FALSE, FALSE))
    ELSE IF state = w.currentState[n] THEN w
    ELSE LET saved == savedState(n, state)
             w1 == IF saved.onSet = NoCallback THEN w
                   ELSE LET called == Emit(w, Ev("onSet", n, state, FALSE, FALSE, FALSE))
                        IN  IF saved.onSet = PlainCallback \/ fuel = 0
                            THEN called
                            ELSE setState(called, n, saved.onSet, fuel - 1)
             w2 == Emit([w1 EXCEPT !.currentState[n] = state],
                        Ev("currentState", n, state, FALSE, FALSE, FALSE))
         IN  IF saved.attributes.given
             THEN set(Emit(w2, Ev("attributes", n, state, FALSE, FALSE, FALSE)),
                      n, saved.attributes)
             ELSE w2

\* fuel bounds the depth of the calls an onSet callback makes back into setState.
setState(w, n, state, fuel) ==
    IF ~hasSavedState(n, state)
    THEN Emit(w, Ev("warn", n, state, FALSE, FALSE, FALSE))
    ELSE IF state = w.currentState[n] THEN w
    ELSE LET saved == savedState(n, state)
             w1 == Emit([w EXCEPT !.currentState[n] = state],
                        Ev("currentState", n, state, FALSE, FALSE, FALSE))
             w2 == IF saved.onSet = NoCallback THEN w1
                   ELSE LET called == Emit(w1, Ev("onSet", n, state, FALSE, FALSE, FALSE))
                        IN  IF saved.onSet = PlainCallback \/ fuel = 0
                            THEN called
                            ELSE setState(called, n, saved.onSet, fuel - 1)
         IN  IF saved.attributes.given
             THEN set(Emit(w2, Ev("attributes", n, state, FALSE, FALSE, FALSE)),
                      n, saved.attributes)
             ELSE w2

---------------------------------------------------------------------------
(* MeshUIComponent: clear, font callbacks *)

RECURSIVE InSubtree(_, _)
\* m is r or a descendant of r in the host graph.
InSubtree(m, r) ==
    m = r \/ (parent[m] # NoNode /\ InSubtree(parent[m], r))

RECURSIVE traverse(_), traverseChildren(_, _)
\* Object3D.traverse( callback ): the nodes of the subtree of n in the order
\* they are visited: n, then the subtree of each of its children.
traverse(n) == <<n>> \o traverseChildren(n, 1)

\* k runs over the candidates for a child of n.
traverseChildren(n, k) ==
    IF k > NumNodes THEN <<>>
    ELSE (IF parent[k] = n THEN traverse(k) ELSE <<>>) \o traverseChildren(n, k + 1)

RECURSIVE disposeAll(_, _)
\* UpdateManager.disposeOf( obj ), for each node visited
disposeAll(w, visited) ==
    IF visited = <<>> THEN w
    ELSE disposeAll(
             disposeOf(Emit(w, Ev("disposeOf", Head(visited), "", FALSE, FALSE, FALSE)),
                       Head(visited)),
             Tail(visited))

clearSelfOnly(w, n) == disposeAll(w, <<n>>)

\* The materials and geometries clear disposes of are not part of the model.
clear(w, n) == disposeAll(w, traverse(n))

RECURSIVE updateUI(_, _)
\* if ( child.isUI ) child.update( true, true, false ), for each node visited
updateUIFirstOnly(w, visited) ==
    IF visited = <<>> THEN w ELSE update(w, Head(visited), TRUE, TRUE, FALSE)

updateUI(w, visited) ==
    IF visited = <<>> THEN w
    ELSE updateUI(
             IF isUI(Head(visited))
             THEN update(w, Head(visited), TRUE, TRUE, FALSE) ELSE w,
             Tail(visited))

_updateFontFamily(w, n, font) ==
    update(updateUI([w EXCEPT !.attr[n]["fontFamily"] = font], traverse(n)),
           getHighestParent(n), FALSE, TRUE, FALSE)

_updateFontTexture(w, n, texture) ==
    update([w EXCEPT !.attr[n]["fontTexture"] = texture],
           getHighestParent(n), FALSE, TRUE, FALSE)

---------------------------------------------------------------------------
(* UpdateManager: the flush (the update the library exports) *)

Classes == <<"parsing", "layout", "inner">>

RECURSIVE pass(_, _, _)
\* One pass: the work of one class for every registered node dirty for it;
\* k runs over the nodes.
pass(w, class, k) ==
    IF k > NumNodes THEN w
    ELSE pass(IF k \in w.registered /\ w.requested[k][class]
              THEN Emit(w, Ev(class, k, "", FALSE, FALSE, FALSE)) ELSE w,
              class, k + 1)

clearAll(w) == [w EXCEPT !.requested = [n \in Nodes |-> NoFlags]]

\* The flags whose pass has run are cleared.
clearConsumed(w) ==
    [w EXCEPT !.requested =
        [n \in Nodes |->
            [c \in DOMAIN @[n] |->
                /\ @[n][c]
                /\ \A j \in 1 .. Len(w.events) :
                       ~(w.events[j].ev = c /\ w.events[j].node = n)]]]

RECURSIVE perNode(_, _)
perNode(w, k) ==
    IF k > NumNodes THEN w
    ELSE perNode(pass(pass(pass(w, "parsing", k), "layout", k), "inner", k), k + 1)

flushNodeByNode(w) == clearConsumed(perNode(w, 1))

flush(w) ==
    clearConsumed(pass(pass(pass(w, "parsing", 1), "layout", 1), "inner", 1))

\* A flush during which update( p, l, i ) is called on n once the pass named
\* after has run, before the next pass starts.
flushWith(w, after, n, p, l, i) ==
    LET w1 == pass(w, "parsing", 1)
        w2 == IF after = "parsing" THEN update(w1, n, p, l, i) ELSE w1
        w3 == pass(w2, "layout", 1)
        w4 == IF after = "layout" THEN update(w3, n, p, l, i) ELSE w3
    IN  clearConsumed(pass(w4, "inner", 1))

---------------------------------------------------------------------------
(* The state a behaviour starts in, and how a call's result is stored *)

\* Shapes: the parent relations to start from; TagMaps: the role tags of the nodes.
InitOf(Shapes, TagMaps) ==
    /\ parent \in Shapes
    /\ tags \in TagMaps
    /\ attr = [n \in Nodes |-> [p \in Props |-> Undef]]
    /\ states = [n \in Nodes |-> <<>>]
    /\ currentState = [n \in Nodes |-> Undef]
    /\ registered = {}
    /\ requested = [n \in Nodes |-> NoFlags]
    /\ loading = {}
    /\ last = NoCall
    /\ events = <<>>
    /\ ops = 0

InitWith(Shapes, TagChoices) == InitOf(Shapes, [Nodes -> TagChoices])

\* All the nodes are of the same kind.
UniformTags(TagChoices) == {[n \in Nodes |-> t] : t \in TagChoices}

Store(w, call) ==
    /\ attr' = w.attr
    /\ currentState' = w.currentState
    /\ registered' = w.registered
    /\ requested' = w.requested
    /\ loading' = w.loading
    /\ events' = w.events
    /\ last' = call

Commit(w, call) ==
    /\ Store(w, call)
    /\ ops' = ops + 1
    /\ UNCHANGED <<parent, tags>>

\* component.set( options )
Set(n, options) ==
    /\ isUI(n)
    /\ Commit(set(World, n, options),
              Call("set", n, "", options, NoCallback, FALSE, FALSE, FALSE))
    /\ UNCHANGED states

\* component.setupState( { state, attributes, onSet } ). Callbacks that would
\* call setState without end (each entering the state of the other) are left
\* out: no callback enters a state whose own callback enters yet another.
SetupState(n, state, attributes, onSet) ==
    /\ isUI(n)
    /\ LET table == setupState(states[n], state, attributes, onSet)
       IN  /\ \A s \in DOMAIN table :
                  (table[s].onSet \in DOMAIN table /\ table[s].onSet # s) =>
                      table[table[s].onSet].onSet \in
                          {NoCallback, PlainCallback, table[s].onSet}
           /\ states' = [states EXCEPT ![n] = table]
    /\ Commit(World, Call("setupState", n, state, attributes, onSet, FALSE, FALSE, FALSE))

\* component.setState( state )
SetState(n, state) ==
    /\ isUI(n)
    /\ Commit(setState(World, n, state, MaxReentry),
              Call("setState", n, state, NoOptions, NoCallback, FALSE, FALSE, FALSE))
    /\ UNCHANGED states

\* component.update( updateParsing, updateLayout, updateInner )
Update(n, p, l, i) ==
    /\ isUI(n)
    /\ Commit(update(World, n, p, l, i), Call("update", n, "", NoOptions, NoCallback, p, l, i))
    /\ UNCHANGED states

\* ThreeMeshUI.update()
Flush ==
    /\ Commit(flush(World), Call("flush", NoNode, "", NoOptions, NoCallback, FALSE, FALSE, FALSE))
    /\ UNCHANGED states

\* ThreeMeshUI.update(), with component.update( p, l, i ) called between two
\* of its passes
FlushWith(after, n, p, l, i) ==
    /\ isUI(n)
    /\ Commit(flushWith(World, after, n, p, l, i),
              Call("flushWith", n, after, NoOptions, NoCallback, p, l, i))
    /\ UNCHANGED states

\* component.add( ...args ): args are host objects that are neither the
\* component nor above it. The host graph makes each the child of the component.
Add(n, args) ==
    /\ isUI(n)
    /\ \A j \in 1 .. Len(args) : ~InSubtree(n, args[j])
    /\ Store(add(World, n, args),
             Call("add", n, "", Opt(args), NoCallback, FALSE, FALSE, FALSE))
    /\ parent' = [m \in Nodes |->
                     IF \E j \in 1 .. Len(args) : args[j] = m THEN n ELSE parent[m]]
    /\ ops' = ops + 1
    /\ UNCHANGED <<tags, states>>

\* component.getClippingPlanes(): the planes returned are recorded as the
\* events of the call; nothing else changes.
GetClippingPlanes(n) ==
    /\ isUI(n)
    /\ Store([World EXCEPT !.events = getClippingPlanes(attr, n)],
             Call("getClippingPlanes", n, "", NoOptions, NoCallback, FALSE, FALSE, FALSE))
    /\ UNCHANGED <<ops, parent, tags, states>>

\* component.clear()
Clear(n) ==
    /\ isUI(n)
    /\ Commit(clear(World, n), Call("clear", n, "", NoOptions, NoCallback, FALSE, FALSE, FALSE))
    /\ UNCHANGED states

\* FontLibrary has the font a component asked for: it calls the component back.
FontReady(r) ==
    /\ r \in loading
    /\ LET w == [World EXCEPT !.loading = @ \ {r}]
       IN  Commit(IF r.what = "fontFamily"
                  THEN _updateFontFamily(w, r.node, loaded(r.value))
                  ELSE _updateFontTexture(w, r.node, loaded(r.value)),
                  Call("fontReady", r.node, r.what, NoOptions, NoCallback, FALSE, FALSE, FALSE))
    /\ UNCHANGED states

---------------------------------------------------------------------------
(* Attribute lookup under set: the specification of the resolver *)

ResolveOptions ==
    {Opt([fontSize |-> "12"]),
     Opt([fontSize |-> "14", textType |-> "MSDF", borderRadius |-> "0.1",
          fontColor |-> "#fff", fontOpacity |-> "0.5"]),
     Opt(<<>>),
     Opt([fontSize |-> Undef]),
     NoOptions,
     Opt([fontSize |-> "0", fontOpacity |-> "0", textType |-> ""]),
     Opt([backgroundColor |-> "#f00", backgroundOpacity |-> "0.5",
          backgroundTexture |-> "tex", alignContent |-> "left",
          contentDirection |-> "row", justifyContent |-> "end",
          interLine |-> "0.2", offset |-> "0.3", backgroundSize |-> "contain",
          hiddenOverflow |-> "true"])}

InitResolve == InitWith(Trees, {BlockTags, Object3DTags})

NextResolve ==
    \E n \in Nodes, o \in ResolveOptions : ops < MaxSetOps /\ Set(n, o)

SpecResolve == InitResolve /\ [][NextResolve]_vars

---------------------------------------------------------------------------
(* The scheduler: requests and flushes *)

SchedOptions ==
    {Opt([content |-> "text", fontColor |-> "#fff"]), Opt(<<>>)}

UpdateFlags ==
    {<<TRUE, FALSE, FALSE>>, <<FALSE, TRUE, TRUE>>, <<FALSE, FALSE, FALSE>>}

InitSched == InitWith(Trees, {BlockTags, TextTags})

NextSched ==
    \/ \E n \in Nodes, o \in SchedOptions : ops < MaxOps /\ Set(n, o)
    \/ \E n \in Nodes, f \in UpdateFlags :
           ops < MaxOps /\ Update(n, f[1], f[2], f[3])
    \/ ops < MaxOps /\ Flush

SpecSched == InitSched /\ [][NextSched]_vars

---------------------------------------------------------------------------
(* Teardown: clear, and requests after it *)

InitClear == InitWith(Forests, {BlockTags, Object3DTags})

NextClear ==
    \/ \E n \in Nodes : ops < MaxOps /\ Set(n, Opt([fontSize |-> "12"]))
    \/ \E n \in Nodes : ops < MaxOps /\ Update(n, TRUE, TRUE, TRUE)
    \/ \E n \in Nodes : ops < MaxOps /\ Clear(n)
    \/ ops < MaxOps /\ Flush

SpecClear == InitClear /\ [][NextClear]_vars

---------------------------------------------------------------------------
(* set with keys of every class *)

FontKeys == {"fontFamily", "fontTexture"}

SetOptions ==
    {Opt([fontFamily |-> "Roboto.json", content |-> "text", fontColor |-> "#fff",
          fontSize |-> "12"]),
     Opt([fontTexture |-> "Roboto.png", width |-> "1"]),
     Opt([fontFamily |-> "null", fontSize |-> "12"]),
     Opt([fontColor |-> "#fff", offset |-> "0.3"]),
     Opt([hiddenOverflow |-> "true"]),
     Opt([height |-> "2"]),
     Opt([breakOn |-> "-"]),
     Opt([unknownKey |-> "x"])}

InitSet == InitOf(Trees, UniformTags({BlockTags, TextTags, InlineBlockTags}))

NextSet ==
    \E n \in Nodes, o \in SetOptions : ops < MaxSetOps /\ Set(n, o)

SpecSet == InitSet /\ [][NextSet]_vars

---------------------------------------------------------------------------
(* set with fonts, the fonts arriving, flushes *)

FontOptions ==
    {Opt([fontFamily |-> "Roboto.json"]),
     Opt([fontTexture |-> "Roboto.png", fontSize |-> "12"]),
     Opt([fontSize |-> "12"])}

InitFont == InitWith(Trees, {BlockTags, Object3DTags})

NextFont ==
    \/ \E n \in Nodes, o \in FontOptions : ops < MaxOps /\ Set(n, o)
    \/ \E r \in loading : ops < MaxOps /\ FontReady(r)
    \/ ops < MaxOps /\ Flush

SpecFont == InitFont /\ [][NextFont]_vars

---------------------------------------------------------------------------
(* Requests before, during and after a flush *)

\* The components just constructed: none has a parent yet.
Detached == {[n \in Nodes |-> NoNode]}

ReentryFlags == {<<TRUE, TRUE, FALSE>>, <<FALSE, FALSE, TRUE>>}

InitReentry == InitWith(Detached, {BlockTags})

NextReentry ==
    \/ \E n \in Nodes : ops < MaxOps /\ Set(n, Opt([fontSize |-> "12"]))
    \/ \E n \in Nodes, f \in ReentryFlags :
           ops < MaxOps /\ Update(n, f[1], f[2], f[3])
    \/ ops < MaxOps /\ Flush
    \/ \E after \in {"parsing", "layout"}, n \in Nodes, f \in ReentryFlags :
           ops < MaxOps /\ FlushWith(after, n, f[1], f[2], f[3])

SpecReentry == InitReentry /\ [][NextReentry]_vars

---------------------------------------------------------------------------
(* Components assembled with add *)

\* The argument lists: one host object, or two different ones.
Arguments ==
    {<<a>> : a \in Nodes} \cup
    {s \in {<<a, b>> : a, b \in Nodes} : s[1] # s[2]}

InitAdd == InitWith(Detached, {BlockTags, TextTags})

NextAdd ==
    \/ \E n \in Nodes : ops < MaxSetOps /\ Set(n, Opt([fontSize |-> "12"]))
    \/ \E n \in Nodes, args \in Arguments : ops < MaxSetOps /\ Add(n, args)

SpecAdd == InitAdd /\ [][NextAdd]_vars

---------------------------------------------------------------------------
(* Overflow set on components, clipping planes asked for *)

InitClip == InitWith(Trees, {BlockTags, TextTags})

NextClip ==
    \/ \E n \in Nodes, v \in {"true", "false"} :
           ops < MaxSetOps /\ Set(n, Opt([hiddenOverflow |-> v]))
    \/ \E n \in Nodes : GetClippingPlanes(n)

SpecClip == InitClip /\ [][NextClip]_vars

---------------------------------------------------------------------------
(* Claims about attribute lookup *)

\* C1: once a component's local value of a cascading property is defined
\* (falsy values included), its getter returns that value, and so does the
\* getter of each of its UI children that has no local value of its own.
C1_OverrideIsResolved ==
    \A n \in Nodes, P \in Cascading :
        (isUI(n) /\ attr[n][P] # Undef) =>
            /\ resolve(attr, n, P) = attr[n][P]
            /\ \A c \in getUIChildren(n) :
                   attr[c][P] = Undef => resolve(attr, c, P) = attr[n][P]

RECURSIVE NearestOverride(_, _)
\* The local value of the nearest component, from n up its chain of UI
\* parents, that has one; the default when none has.
NearestOverride(n, P) ==
    IF attr[n][P] # Undef THEN attr[n][P]
    ELSE IF getUIParent(n) = NoNode THEN DEFAULTS[P]
         ELSE NearestOverride(getUIParent(n), P)

\* C2: a component with no local value of a cascading property resolves it to
\* the local value of its nearest UI ancestor that has one, to the default
\* when no ancestor has one, and never to undefined.
C2_NearestAncestorOrDefault ==
    \A n \in Nodes, P \in Cascading :
        (isUI(n) /\ attr[n][P] = Undef) =>
            /\ resolve(attr, n, P) = NearestOverride(n, P)
            /\ resolve(attr, n, P) # Undef

\* C3: a component with no local value of a non-cascading property resolves
\* it to the default, whatever its ancestors have set.
C3_NonCascadingIsolated ==
    \A c \in Nodes, p \in NonCascading :
        (isUI(c) /\ attr[c][p] = Undef) => resolve(attr, c, p) = DEFAULTS[p]

\* A parent has just set all the non-cascading properties, over a UI child
\* that has none of them.
C3_Witness ==
    /\ last.op = "set"
    /\ \E c \in getUIChildren(last.node) :
           \A p \in NonCascading :
               /\ attr[c][p] = Undef
               /\ attr[last.node][p] # Undef
               /\ attr[last.node][p] # DEFAULTS[p]

---------------------------------------------------------------------------
(* States: the specification of setupState and setState on one component *)

\* The component whose states are exercised: the forests place it as a root,
\* as a child and as a grandchild.
Button == NumNodes

Bundles ==
    {Bundle(Opt([backgroundColor |-> "#f00"]), NoCallback),
     Bundle(Opt([fontSize |-> "12"]), PlainCallback),
     Bundle(NoOptions, "hover"),
     Bundle(Opt(<<>>), "idle")}

InitState == InitWith(Forests, {BlockTags})

NextState ==
    \/ \E s \in StateNames, b \in Bundles :
           ops < MaxStateOps /\ SetupState(Button, s, b.attributes, b.onSet)
    \/ \E s \in StateNames \cup ObjectPrototypeKeys :
           ops < MaxStateOps /\ SetState(Button, s)

SpecState == InitState /\ [][NextState]_vars

---------------------------------------------------------------------------
(* Claims about states *)

\* How many of the events are of kind ev, on node n, with key.
CountEv(evs, ev, n, key) ==
    Cardinality({j \in 1 .. Len(evs) :
                    evs[j].ev = ev /\ evs[j].node = n /\ evs[j].key = key})

\* The last call was setState and it made the transition to the state named.
Transition(call, evs) ==
    /\ call.op = "setState"
    /\ evs # <<>>
    /\ evs[1] = Ev("currentState", call.node, call.name, FALSE, FALSE, FALSE)

\* The first of two calls ran onSet once (if the bundle has one) and applied the
\* attributes once (if it has some).
OnceEach(call, evs) ==
    LET saved == savedState(call.node, call.name)
    IN  /\ CountEv(evs, "onSet", call.node, call.name) =
               IF saved.onSet = NoCallback THEN 0 ELSE 1
        /\ CountEv(evs, "attributes", call.node, call.name) =
               IF saved.attributes.given THEN 1 ELSE 0

\* C4 as stated: a second setState with the same registered state, right after a
\* first one that made the transition, does nothing, and the first one ran
\* onSet and applied the attributes once.
C4_SetStateTwice ==
    [][(/\ last' = last
        /\ Transition(last, events)
        /\ last.name \in DOMAIN states[last.node])
       => (/\ events' = <<>>
           /\ UNCHANGED <<attr, currentState, requested>>
           /\ OnceEach(last, events))]_vars

\* C4, amended: the same, when the first call left the component in that state
\* (its onSet did not enter another state).
C4_SetStateTwiceSameState ==
    [][(/\ last' = last
        /\ Transition(last, events)
        /\ last.name \in DOMAIN states[last.node]
        /\ currentState[last.node] = last.name)
       => (/\ events' = <<>>
           /\ UNCHANGED <<attr, currentState, requested>>
           /\ OnceEach(last, events))]_vars

\* A setState of the state the component is in, whose bundle has a callback
\* and attributes, has done nothing.
C4_Witness ==
    /\ last.op = "setState"
    /\ last.name \in DOMAIN states[last.node]
    /\ currentState[last.node] = last.name
    /\ savedState(last.node, last.name).onSet # NoCallback
    /\ savedState(last.node, last.name).attributes.given
    /\ events = <<>>

\* C5: setState with a name setupState never registered on the component warns
\* and changes nothing else.
C5_UnknownStateWarnsOnly ==
    [][(/\ last'.op = "setState"
        /\ last'.name \notin DOMAIN states[last'.node])
       => (/\ events' = <<Ev("warn", last'.node, last'.name, FALSE, FALSE, FALSE)>>
           /\ UNCHANGED <<attr, currentState, requested>>)]_vars

---------------------------------------------------------------------------
(* Claims about set with no options *)

\* C9: set with an empty options map writes no attribute and sets no flag on
\* any node (it registers the component); called on a child B right after
\* set( { fontSize: 12 } ) on its parent A, it leaves B resolving fontSize to 12,
\* a layout update pending for A and B's flags as they were (none, if B had none).
C9_EmptySetIsNoOp ==
    [][(last'.op = "set" /\ IsEmptyOptions(last'.options))
       => (/\ UNCHANGED <<attr, requested, currentState, loading>>
           /\ registered' = registered \cup {last'.node}
           /\ (/\ last.op = "set"
               /\ last.options = Opt([fontSize |-> "12"])
               /\ last.node = getUIParent(last'.node)
               /\ attr[last'.node]["fontSize"] = Undef)
              => (/\ resolve(attr', last'.node, "fontSize") = "12"
                  /\ requested'[last.node].layout
                  /\ requested'[last'.node] = requested[last'.node]))]_vars

\* set( {} ) on a fresh child B has followed set( { fontSize: 12 } ) on its parent.
C9_Witness ==
    /\ last.op = "set"
    /\ last.options = Opt(<<>>)
    /\ events = <<Ev("set", last.node, "", FALSE, FALSE, FALSE)>>
    /\ getUIParent(last.node) # NoNode
    /\ attr[getUIParent(last.node)]["fontSize"] = "12"
    /\ requested[getUIParent(last.node)].layout
    /\ attr[last.node] = [p \in Props |-> Undef]
    /\ requested[last.node] = NoFlags
    /\ last.node \in registered
    /\ ops = 2

---------------------------------------------------------------------------
(* Claims about the scheduler *)

\* C6: requests coalesce. A request never clears a flag that is pending and
\* sets exactly the flags it carries (on a registered node); a flush runs each
\* class's pass once for each registered node dirty for it, for no other node,
\* and leaves that flag clear.
C6_Coalescing ==
    [][/\ last'.op # "flush" =>
              \A n \in Nodes, c \in DOMAIN NoFlags :
                  requested[n][c] => requested'[n][c]
       /\ last'.op = "update" =>
              \A n \in Nodes, c \in DOMAIN NoFlags :
                  requested'[n][c] =
                      \/ requested[n][c]
                      \/ n = last'.node /\ n \in registered /\ last'[c]
       /\ last'.op = "flush" =>
              \A n \in Nodes, c \in DOMAIN NoFlags :
                  /\ CountEv(events', c, n, "") =
                         IF n \in registered /\ requested[n][c] THEN 1 ELSE 0
                  /\ n \in registered => ~requested'[n][c]]_vars

\* A request with a false layout flag has reached a node whose layout update
\* was pending already, and it is pending still.
C6_Witness ==
    /\ last.op = "update"
    /\ ~last.layout /\ last.parsing
    /\ last.node \in registered
    /\ requested[last.node].layout
    /\ requested[last.node].parsing

\* The place of a pass in a flush.
ClassIndex(c) == CHOOSE j \in 1 .. Len(Classes) : Classes[j] = c

\* C7: in a flush, the parsing pass of every node dirty for parsing comes before
\* the layout pass of any node, and the layout pass of every node dirty for
\* layout before the inner pass of any node.
C7_PassOrder ==
    [][last'.op = "flush" =>
          /\ \A j, k \in 1 .. Len(events') :
                 j < k => ClassIndex(events'[j].ev) <= ClassIndex(events'[k].ev)
          /\ \A n \in registered, c \in DOMAIN NoFlags :
                 requested[n][c] => CountEv(events', c, n, "") = 1]_vars

\* A flush has run the three passes for a component and for its parent.
C7_Witness ==
    /\ last.op = "flush"
    /\ \E a \in Nodes :
           /\ getUIParent(a) # NoNode
           /\ \A n \in {a, getUIParent(a)}, c \in DOMAIN NoFlags :
                  CountEv(events, c, n, "") = 1

\* C8: clear leaves no node of the subtree registered; an update requested on
\* a node that is not registered sets no flag, and a flush runs no pass for it.
C8_Teardown ==
    [][/\ last'.op = "clear" =>
              \A m \in Nodes : InSubtree(m, last'.node) => m \notin registered'
       /\ (last'.op = "update" /\ last'.node \notin registered) =>
              requested' = requested
       /\ last'.op = "flush" =>
              \A j \in 1 .. Len(events') : events'[j].node \in registered]_vars

\* clear on a root has unregistered a component below it that set had
\* registered, past a node in between.
C8_Witness ==
    /\ last.op = "clear"
    /\ \E m \in Nodes :
           /\ m # last.node
           /\ parent[m] # last.node
           /\ InSubtree(m, last.node)
           /\ attr[m]["fontSize"] # Undef
           /\ Ev("disposeOf", m, "", FALSE, FALSE, FALSE) \in
                  {events[j] : j \in 1 .. Len(events)}
           /\ m \notin registered

---------------------------------------------------------------------------
(* Claims about the requests set makes *)

\* The update events among evs.
Updates(evs) == SelectSeq(evs, LAMBDA e : e.ev = "update")

\* The parsing and inner flags the keys of a map ask for on node n.
ParsingAsked(n, keys) ==
    \/ "content" \in keys /\ isText(n)
    \/ keys \cap {"width", "height", "padding"} # {} /\ isInlineBlock(n)

InnerAsked(keys) ==
    keys \cap {"fontColor", "fontOpacity", "offset", "backgroundColor",
               "backgroundOpacity", "backgroundTexture"} # {}

\* The one request of a set with a font: on the component, with no layout.
FontSetRequests ==
    Updates(events) =
        <<Ev("update", last.node, "",
             ParsingAsked(last.node, DOMAIN last.options.map), FALSE,
             InnerAsked(DOMAIN last.options.map))>>

\* C11 as stated: whenever the options of a set contain fontFamily or
\* fontTexture, the one update requested is on the component, with layout
\* false and with the parsing and inner flags of the other keys.
C11_FontKeysSuppressLayout ==
    (/\ last.op = "set"
     /\ ~IsEmptyOptions(last.options)
     /\ DOMAIN last.options.map \cap FontKeys # {})
    => FontSetRequests

\* C11, amended: the same, whenever the options of a set hold a truthy
\* fontFamily or fontTexture.
C11_TruthyFontKeysSuppressLayout ==
    (/\ last.op = "set"
     /\ \E k \in DOMAIN last.options.map \cap FontKeys :
            last.options.map[k] \notin Falsy)
    => FontSetRequests

\* A set with a font key and keys of the parsing, layout and inner classes on
\* a text below its highest parent.
C11_Witness ==
    /\ last.op = "set"
    /\ last.options.map \in {o.map : o \in SetOptions}
    /\ {"fontFamily", "content", "fontColor", "fontSize"} \subseteq
           DOMAIN last.options.map
    /\ isText(last.node)
    /\ getHighestParent(last.node) # last.node
    /\ Updates(events) = <<Ev("update", last.node, "", TRUE, FALSE, TRUE)>>
    /\ ~requested[getHighestParent(last.node)].layout

\* The UI components above n on its chain of UI parents.
RECURSIVE UIAncestors(_)
UIAncestors(n) ==
    IF getUIParent(n) = NoNode THEN {}
    ELSE {parent[n]} \cup UIAncestors(parent[n])

\* The component of n's chain that has no UI parent.
HighestAncestor(n) ==
    CHOOSE h \in UIAncestors(n) \cup {n} : getUIParent(h) = NoNode

\* C15: a set requests a layout-only update on the highest parent of the
\* component exactly when the update it requests on the component carries the
\* layout flag, and after it; it requests nothing else.
C15_LayoutReachesHighestParent ==
    (last.op = "set" /\ ~IsEmptyOptions(last.options)) =>
        LET ups == Updates(events)
        IN  /\ Len(ups) >= 1
            /\ ups[1].node = last.node
            /\ Tail(ups) =
                   IF ups[1].layout
                   THEN <<Ev("update", HighestAncestor(last.node), "",
                             FALSE, TRUE, FALSE)>>
                   ELSE <<>>
            /\ (DOMAIN last.options.map \subseteq
                    {"fontColor", "fontOpacity", "offset", "backgroundColor",
                     "backgroundOpacity", "backgroundTexture"}
                \/ DOMAIN last.options.map = {"hiddenOverflow"})
               => ~ups[1].layout

\* A set of a layout key two levels below the highest parent has requested
\* layout there, and the flag is pending.
C15_Witness ==
    /\ last.op = "set"
    /\ last.options = Opt([height |-> "2"])
    /\ Cardinality(UIAncestors(last.node)) >= 2
    /\ HighestAncestor(last.node) \in registered
    /\ requested[HighestAncestor(last.node)].layout
    /\ Len(Updates(events)) = 2

\* C20: a set whose only key is neither a case of the switch nor a font key
\* writes no attribute, so every getter returns what it did, and sets no
\* flag: it only registers the component.
C20_UnclassifiedKeyOnlyRegisters ==
    [][(/\ last'.op = "set"
        /\ \E k \in DOMAIN last'.options.map :
               /\ DOMAIN last'.options.map = {k}
               /\ k \notin
                      {"content", "width", "height", "padding", "fontSize",
                       "interLine", "margin", "contentDirection",
                       "justifyContent", "alignContent", "textType",
                       "borderRadius", "backgroundSize", "src", "fontColor",
                       "fontOpacity", "offset", "backgroundColor",
                       "backgroundOpacity", "backgroundTexture",
                       "hiddenOverflow", "fontFamily", "fontTexture"})
       => (/\ UNCHANGED <<attr, requested, currentState, loading>>
           /\ \A n \in Nodes, p \in Props :
                  isUI(n) => resolve(attr', n, p) = resolve(attr, n, p)
           /\ registered' = registered \cup {last'.node})]_vars

\* set( { breakOn } ) has registered a component that has flags pending and
\* resolves breakOn to the default.
C20_Witness ==
    /\ last.op = "set"
    /\ last.options = Opt([breakOn |-> "-"])
    /\ last.node \in registered
    /\ attr[last.node]["breakOn"] = Undef
    /\ resolve(attr, last.node, "breakOn") = DEFAULTS["breakOn"]
    /\ \E n \in Nodes : requested[n] # NoFlags

---------------------------------------------------------------------------
(* Claims about fonts *)

\* C12: the fontFamily and the fontTexture of a component change only in the
\* callback of a request made for that component and that attribute, to the
\* resource of that request; no set, no flush and no other callback changes
\* them, so they keep their value while the request is pending and for ever
\* if the callback never runs.
C12_FontAppliedOnlyByCallback ==
    [][\A n \in Nodes, k \in {"fontFamily", "fontTexture"} :
           attr'[n][k] # attr[n][k] =>
               /\ last'.op = "fontReady"
               /\ last'.node = n
               /\ last'.name = k
               /\ \E r \in loading \ loading' :
                      /\ r = [node |-> n, what |-> k, value |-> r.value]
                      /\ attr'[n][k] = "loaded:" \o r.value]_vars

\* A flush has run after another call while a font requested for a component
\* is pending, and the component still has no fontFamily of its own.
C12_Witness ==
    /\ last.op = "flush"
    /\ ops >= 3
    /\ \E r \in loading :
           /\ r.what = "fontFamily"
           /\ r.node \in registered
           /\ attr[r.node]["fontFamily"] = Undef

\* C14: the callback of a font family sets the fontFamily of the component to
\* the font, requests ( true, true, false ) once on each UI node of the
\* subtree of the component (the component included) and on no other node,
\* then ( false, true, false ) on the highest parent; the callback of a font
\* texture sets fontTexture and requests ( false, true, false ) on the highest
\* parent only.
C14_FontCallbackRequests ==
    last.op = "fontReady" =>
        /\ events = Updates(events)
        /\ Len(events) >= 1
        /\ events[Len(events)] =
               Ev("update", HighestAncestor(last.node), "", FALSE, TRUE, FALSE)
        /\ LET front == SubSeq(events, 1, Len(events) - 1)
               uis == {m \in Nodes : InSubtree(m, last.node) /\ isUI(m)}
           IN  IF last.name = "fontFamily"
               THEN /\ {front[j].node : j \in 1..Len(front)} = uis
                    /\ Len(front) = Cardinality(uis)
                    /\ \A j \in 1..Len(front) :
                           front[j] = Ev("update", front[j].node, "", TRUE, TRUE, FALSE)
                    /\ attr[last.node]["fontFamily"] = "loaded:Roboto.json"
               ELSE /\ front = <<>>
                    /\ attr[last.node]["fontTexture"] = "loaded:Roboto.png"

\* The font family of a component has arrived; the component has a UI node
\* below a host object that is not UI.
C14_Witness ==
    /\ last.op = "fontReady"
    /\ last.name = "fontFamily"
    /\ \E m \in Nodes :
           /\ isUI(m)
           /\ parent[m] # NoNode
           /\ ~isUI(parent[m])
           /\ parent[parent[m]] = last.node
    /\ Len(events) = 3
    /\ requested[last.node].parsing
    /\ attr[last.node]["fontFamily"] = "loaded:Roboto.json"

---------------------------------------------------------------------------
(* Claims about requests that arrive around and inside a flush *)

---------------------------------------------------------------------------
(* Claims about add *)

\* C16: add requests updates only on the receiver and only of the layout,
\* at least one when an argument is inline and none when no argument is;
\* after them it hands the arguments, each once and in their order, to the
\* insertion of the host graph, which makes each a child of the receiver.
C16_AddRequestsLayoutThenInserts ==
    last.op = "add" =>
        LET args == last.options.map
            ups == Updates(events)
        IN  /\ (ups # <<>>) <=> (\E j \in 1 .. Len(args) : "isInline" \in tags[args[j]])
            /\ \A j \in 1 .. Len(ups) :
                   ups[j] = Ev("update", last.node, "", FALSE, TRUE, FALSE)
            /\ events =
                   ups \o [j \in 1 .. Len(args) |->
                              Ev("add", args[j], "", FALSE, FALSE, FALSE)]
            /\ \A j \in 1 .. Len(args) : parent[args[j]] = last.node
            /\ (ups # <<>> /\ last.node \in registered) =>
                   requested[last.node].layout

\* A registered block was given a block and then a text: its layout is
\* pending, and both are its children.
C16_Witness ==
    /\ last.op = "add"
    /\ Len(last.options.map) = 2
    /\ isBlock(last.options.map[1])
    /\ isInline(last.options.map[2])
    /\ last.node \in registered
    /\ requested[last.node] = [parsing |-> FALSE, layout |-> TRUE, inner |-> FALSE]
    /\ parent[last.options.map[1]] = last.node
    /\ parent[last.options.map[2]] = last.node

---------------------------------------------------------------------------
(* Claims about clipping planes *)

\* The UI ancestors of n whose hiddenOverflow is set and true.
ClippingAncestors(n) ==
    {anc \in UIAncestors(n) : attr[anc]["hiddenOverflow"] = "true"}

\* The four planes of each component of a set.
PlanesOf(owners) ==
    {Ev("plane", o, nrm, FALSE, FALSE, FALSE) :
        o \in owners, nrm \in {"0,1,0", "0,-1,0", "1,0,0", "-1,0,0"}}

\* The planes a call returned.
Returned == {events[j] : j \in 1 .. Len(events)}

\* C17 as stated: getClippingPlanes returns the four planes of every UI
\* ancestor of the component that clips, and no plane when none clips.
C17_PlanesOfEveryClippingAncestor ==
    last.op = "getClippingPlanes" =>
        /\ PlanesOf(ClippingAncestors(last.node)) \subseteq Returned
        /\ ClippingAncestors(last.node) = {} => events = <<>>

\* C17, amended: getClippingPlanes returns exactly the four planes, each
\* once, of every UI ancestor that clips and whose child on the chain down to
\* the component (the component itself, for its parent) is a block; it
\* returns no plane when no ancestor clips.
C17_PlanesOfClippingAncestorsOfBlocks ==
    last.op = "getClippingPlanes" =>
        LET chain == UIAncestors(last.node) \cup {last.node}
            owners == {anc \in ClippingAncestors(last.node) :
                          \E c \in chain : parent[c] = anc /\ "isBlock" \in tags[c]}
        IN  /\ Returned = PlanesOf(owners)
            /\ Len(events) = 4 * Cardinality(owners)
            /\ ClippingAncestors(last.node) = {} => events = <<>>

\* A block two levels below the highest parent, both ancestors clipping, has
\* asked for its planes and got the four of each.
C17_Witness ==
    /\ last.op = "getClippingPlanes"
    /\ "isBlock" \in tags[last.node]
    /\ Cardinality(ClippingAncestors(last.node)) = 2
    /\ Len(events) = 8
    /\ PlanesOf(ClippingAncestors(last.node)) = Returned

---------------------------------------------------------------------------
(* Claims about the state table and the order of a transition *)

\* C18: setupState replaces or creates the entry of the state named in the
\* table of the component and changes nothing else: no other entry, no table
\* of another component, no currentState, no attribute, not the registered
\* components, no flag, no font request; and it calls nothing (no onSet).
C18_SetupStateOnlyWritesEntry ==
    [][last'.op = "setupState" =>
           /\ UNCHANGED <<attr, currentState, registered, requested, loading>>
           /\ events' = <<>>
           /\ \A m \in Nodes \ {last'.node} : states'[m] = states[m]
           /\ DOMAIN states'[last'.node] =
                  DOMAIN states[last'.node] \cup {last'.name}
           /\ \A s \in DOMAIN states[last'.node] \ {last'.name} :
                  states'[last'.node][s] = states[last'.node][s]
           /\ states'[last'.node][last'.name] =
                  [attributes |-> last'.options, onSet |-> last'.cb]]_vars

\* setupState has replaced the bundle of the state the component is in, by one
\* with a callback, and the table has another state too.
C18_Witness ==
    /\ last.op = "setupState"
    /\ currentState[last.node] = last.name
    /\ last.cb # NoCallback
    /\ states[last.node][last.name] =
           [attributes |-> last.options, onSet |-> last.cb]
    /\ DOMAIN states[last.node] = {"hover", "idle"}
    /\ events = <<>>

\* C19: setState with a registered name other than currentState first sets
\* currentState, then calls onSet if the bundle has one, then applies the
\* attributes, if the bundle has some, through set; an onSet that calls
\* setState with the same name adds nothing to that; and unless onSet calls
\* setState with another name, currentState is the name when setState returns.
C19_TransitionOrder ==
    [][(/\ last'.op = "setState"
        /\ last'.name \in DOMAIN states[last'.node]
        /\ currentState[last'.node] # last'.name)
       => LET n == last'.node
              name == last'.name
              b == states[n][name]
              first == <<Ev("currentState", n, name, FALSE, FALSE, FALSE)>>
              called == IF b.onSet = "undefined" THEN <<>>
                        ELSE <<Ev("onSet", n, name, FALSE, FALSE, FALSE)>>
              applied == IF b.attributes.given
                         THEN <<Ev("attributes", n, name, FALSE, FALSE, FALSE),
                                Ev("set", n, "", FALSE, FALSE, FALSE)>>
                         ELSE <<>>
              own == b.onSet \in {"undefined", "() => {}", name}
          IN  /\ Len(events') >= Len(first \o called)
              /\ SubSeq(events', 1, Len(first \o called)) = first \o called
              /\ b.attributes.given =>
                     \E j \in Len(first \o called) + 1 .. Len(events') - 1 :
                         /\ SubSeq(events', j, j + 1) = applied
                         /\ \A k \in 1 .. Len(events') :
                                events'[k] = applied[1] => k = j
              /\ own => /\ currentState'[n] = name
                        /\ Len(events') >= Len(first \o called \o applied)
                        /\ SubSeq(events', 1, Len(first \o called \o applied)) =
                               first \o called \o applied
                        /\ b.attributes.given \/ events' = first \o called]_vars

\* A transition into a state whose onSet calls setState with that same state
\* and whose bundle has attributes: currentState, onSet, attributes, set.
C19_Witness ==
    /\ last.op = "setState"
    /\ last.name \in DOMAIN states[last.node]
    /\ states[last.node][last.name].onSet = last.name
    /\ states[last.node][last.name].attributes.given
    /\ currentState[last.node] = last.name
    /\ Len(events) >= 4
    /\ SubSeq(events, 1, 4) =
           <<Ev("currentState", last.node, last.name, FALSE, FALSE, FALSE),
             Ev("onSet", last.node, last.name, FALSE, FALSE, FALSE),
             Ev("attributes", last.node, last.name, FALSE, FALSE, FALSE),
             Ev("set", last.node, "", FALSE, FALSE, FALSE)>>

===========================================================================
